---- MODULE Spec2Model ----
(***************************************************************************)
(* Catalogue-to-Shopify synchronisation engine of Hooter_backend:          *)
(* ProductService (brand-centric products), CatalogueService (inventory,   *)
(* webhooks), the retry executor and the HTTP routes in front of them.     *)
(***************************************************************************)
EXTENDS Integers, Sequences, FiniteSets, TLC

(***************************************************************************)
(* Bounds of the model                                                     *)
(***************************************************************************)
MaxAttempts == 3      \* largest attempts argument tried on the retry executor
MaxBackoff == 2       \* largest backoff_seconds argument tried

(***************************************************************************)
(* Program constants                                                       *)
(***************************************************************************)
DefaultAttempts == 3  \* _retry_shopify_call(attempts=3)
DefaultBackoff == 2   \* _retry_shopify_call(backoff_seconds=2.0)

(***************************************************************************)
(* Outcome of one invocation of a remote call (callable_fn):               *)
(*   "ok"          the platform answered 2xx without userErrors            *)
(*   "transport"   requests.Timeout / requests.ConnectionError /           *)
(*                 ShopifyRetryableError: the request did not get through  *)
(*                 to the platform                                         *)
(*   "http_error"  requests.HTTPError raised by raise_for_status           *)
(*   "user_errors" ShopifyAPIError raised on a non-empty userErrors list   *)
(* The last two are the validation class: the platform saw the request and *)
(* rejected it.                                                            *)
(***************************************************************************)
Outcomes == {"ok", "transport", "http_error", "user_errors"}
RestOutcomes == {"ok", "transport", "http_error"}
GraphqlOutcomes == Outcomes

(***************************************************************************)
(* Bounds of the engine model                                              *)
(***************************************************************************)
MaxRemote == 1        \* create requests that get as far as the platform
MaxConcurrent == 2    \* the same, when two workers run concurrently
MaxImages == 2        \* images per create request
MaxLog == 3           \* rows of product_info_change_stack
MaxVariants == 2      \* variants of a catalogue
MaxLocations == 1     \* locations of the shop
MaxQty == 1           \* largest inventory quantity
MaxAudit == 3         \* rows of catalogue_audit_log

(***************************************************************************)
(* Tenants.  Brand 2 is shared by both users; brand 1 belongs to u1 only.  *)
(* Store 1 is u1's, store 2 is u2's.                                       *)
(***************************************************************************)
Users == {"u1", "u2"}
Brands == {1, 2}
StoreIds == {1, 2}
Keys == {"", "k1"}          \* Idempotency-Key header; "" is an absent key
Titles == {"A", "B"}
Positions == {0, 1}
NoPos == -1                 \* the image dict has no "position" key
Procs == {1, 2}             \* request workers
Uids == 1..MaxConcurrent    \* values uuid.uuid4() hands out, in order

\* ids as the platform's REST API and its GraphQL API write them
Num(n) == [form |-> "num", type |-> "", n |-> n]
Gid(type, n) == [form |-> "gid", type |-> type, n |-> n]

Put(f, k, v) == [x \in DOMAIN f \cup {k} |-> IF x = k THEN v ELSE f[x]]
Drop(f, k) == [x \in DOMAIN f \ {k} |-> f[x]]
EmptyFn == [x \in {} |-> 0]

VARIABLES
    rt,                         \* the retry executor run under test
    brand_access,               \* table brand_access: set of <<brand_id, user_id>>
    stores,                     \* table stores: store_id -> row
    uid_record,                 \* table uid_record: uid -> brand_id
    fashion,                    \* table fashion: uid -> row
    low_resol_images,           \* table low_resol_images: rows in insertion order
    shopify_product_mapping,    \* table shopify_product_mapping: set of rows
    product_info_change_stack,  \* table product_info_change_stack: rows in order
    catalogue_idempotency,      \* table catalogue_idempotency: triple -> response
    shop_products,              \* the remote platform: product number -> state
    uuid_count,                 \* values uuid.uuid4() has handed out
    req,                        \* create requests in flight, per worker
    last,                       \* response of the last get/list/update/delete
    webhook_secret,             \* os.environ SHOPIFY_WEBHOOK_SECRET; "" when unset
    catalogue,                  \* table catalogue: catalogue_id -> row
    catalogue_shopify_mapping,  \* table catalogue_shopify_mapping: set of rows
    catalogue_variants,         \* table catalogue_variants: variant_id -> row
    catalogue_images,           \* table catalogue_images: rows in insertion order
    catalogue_inventory,        \* table catalogue_inventory: rows in insertion order
    catalogue_audit_log,        \* table catalogue_audit_log: rows in order
    reply,                      \* response of the last catalogue or webhook
                                \* request; calls counts its remote calls,
                                \* wrote is the inventory it committed, as
                                \* <<variant_id, location_id, quantity>>
    bulk                        \* the POST /catalogue/bulk request being served

dbVars == <<brand_access, stores, uid_record, fashion, low_resol_images,
            shopify_product_mapping, product_info_change_stack,
            catalogue_idempotency>>
catTables == <<catalogue, catalogue_shopify_mapping, catalogue_variants,
               catalogue_images, catalogue_inventory, catalogue_audit_log>>
catVars == <<webhook_secret, catTables, reply, bulk>>
engineVars == <<dbVars, shop_products, uuid_count, req, last, catVars>>
vars == <<rt, engineVars>>

(***************************************************************************)
(* ProductService._retry_shopify_call / CatalogueService._retry_shopify_call *)
(* outs[k] is what the k-th invocation of callable_fn does.  The result    *)
(* records how the loop ended, how many times callable_fn was invoked and  *)
(* the sleeps taken, in order; last_error is the failure that the terminal  *)
(* "Shopify call failed after retries: {last_error}" carries.              *)
(***************************************************************************)
RECURSIVE RetryLoop(_, _, _, _, _)
RetryLoop(outs, attempt, attempts, backoff_seconds, sleeps) ==
    IF attempt > attempts
    THEN [status |-> "exhausted", calls |-> attempts, sleeps |-> sleeps,
          error |-> "Exception", last_error |-> outs[attempts]]
    ELSE IF outs[attempt] = "ok"
    THEN [status |-> "ok", calls |-> attempt, sleeps |-> sleeps,
          error |-> "none", last_error |-> "none"]
    ELSE IF outs[attempt] = "transport"
    THEN RetryLoop(outs, attempt + 1, attempts, backoff_seconds,
                   Append(sleeps, backoff_seconds * attempt))
    ELSE [status |-> "fatal", calls |-> attempt, sleeps |-> sleeps,
          error |-> outs[attempt], last_error |-> "none"]

\* the loop with one except clause for every exception
RECURSIVE RetryAnyError(_, _, _, _, _)
RetryAnyError(outs, attempt, attempts, backoff_seconds, sleeps) ==
    IF attempt > attempts
    THEN [status |-> "exhausted", calls |-> attempts, sleeps |-> sleeps,
          error |-> "Exception", last_error |-> outs[attempts]]
    ELSE IF outs[attempt] = "ok"
    THEN [status |-> "ok", calls |-> attempt, sleeps |-> sleeps,
          error |-> "none", last_error |-> "none"]
    ELSE RetryAnyError(outs, attempt + 1, attempts, backoff_seconds,
                       Append(sleeps, backoff_seconds * attempt))

retry_any_error(outs, attempts, backoff_seconds) ==
    RetryAnyError(outs, 1, attempts, backoff_seconds, <<>>)

\* the loop sleeping backoff_seconds after every failure
RECURSIVE RetryConstant(_, _, _, _, _)
RetryConstant(outs, attempt, attempts, backoff_seconds, sleeps) ==
    IF attempt > attempts
    THEN [status |-> "exhausted", calls |-> attempts, sleeps |-> sleeps,
          error |-> "Exception", last_error |-> outs[attempts]]
    ELSE IF outs[attempt] = "ok"
    THEN [status |-> "ok", calls |-> attempt, sleeps |-> sleeps,
          error |-> "none", last_error |-> "none"]
    ELSE IF outs[attempt] = "transport"
    THEN RetryConstant(outs, attempt + 1, attempts, backoff_seconds,
                       Append(sleeps, backoff_seconds))
    ELSE [status |-> "fatal", calls |-> attempt, sleeps |-> sleeps,
          error |-> outs[attempt], last_error |-> "none"]

retry_constant_backoff(outs, attempts, backoff_seconds) ==
    RetryConstant(outs, 1, attempts, backoff_seconds, <<>>)

retry_shopify_call(outs, attempts, backoff_seconds) ==
    RetryLoop(outs, 1, attempts, backoff_seconds, <<>>)

(***************************************************************************)
(* Reads                                                                   *)
(***************************************************************************)
\* Fetch.verify_brand_ownership: a brand_access row for (brand_id, user_id)
verify_brand_ownership(brand_id, user_id) == <<brand_id, user_id>> \in brand_access

\* Fetch.get_store_by_id(store_id, user_id): the row, filtered by owner only
get_store_by_id(store_id, user_id) ==
    {s \in DOMAIN stores : s = store_id /\ stores[s].user_id = user_id}

\* shopify_helpers.get_store_config: raises AuthorizationError without a row
get_store_config(store_id, user_id) == get_store_by_id(store_id, user_id) # {}

\* a lookup that never finds a stored response
get_or_create_idempotency_miss(idempotency_key, user_id, brand_id) == {}

\* a lookup by idempotency_key and user_id only
get_or_create_idempotency_any_brand(idempotency_key, user_id, brand_id) ==
    IF idempotency_key = "" THEN {}
    ELSE {catalogue_idempotency[t] : t \in
            {x \in DOMAIN catalogue_idempotency :
                x[1] = idempotency_key /\ x[2] = user_id}}

\* ProductService._get_or_create_idempotency: the stored responses (at most one)
get_or_create_idempotency(idempotency_key, user_id, brand_id) ==
    IF idempotency_key = "" THEN {}
    ELSE {catalogue_idempotency[t] : t \in
            {x \in DOMAIN catalogue_idempotency :
                x = <<idempotency_key, user_id, brand_id>>}}

\* a validation that finds nothing invalid
validate_nothing(images) == {}

\* ProductService.validate_image_urls: the indexes of the invalid images
validate_image_urls(images) ==
    {i \in 1..Len(images) : images[i].url # "ok"}

\* SELECT ... FROM shopify_product_mapping spm JOIN uid_record u
\*   WHERE spm.uid = uid AND u.brand_id = brand_id
mapping_rows(uid, brand_id) ==
    {m \in shopify_product_mapping :
        /\ m.uid = uid
        /\ uid \in DOMAIN uid_record
        /\ uid_record[uid] = brand_id}

\* the same SELECT without its brand condition
product_rows_any_brand(uid, brand_id) ==
    {u \in DOMAIN fashion : u = uid}

\* SELECT ... FROM fashion f JOIN uid_record u ON f.uid = u.uid
\*   WHERE f.uid = uid AND u.brand_id = brand_id
product_rows(uid, brand_id) ==
    {u \in DOMAIN fashion :
        u = uid /\ u \in DOMAIN uid_record /\ uid_record[u] = brand_id}

(***************************************************************************)
(* Media ordering: sorted(shopify_images, key=position), a stable sort     *)
(***************************************************************************)
RECURSIVE InsertByPosition(_, _)
InsertByPosition(sorted, img) ==
    IF sorted = <<>> THEN <<img>>
    ELSE IF Head(sorted).position <= img.position
         THEN <<Head(sorted)>> \o InsertByPosition(Tail(sorted), img)
         ELSE <<img>> \o sorted

RECURSIVE sorted_by_position(_)
sorted_by_position(shopify_images) ==
    IF shopify_images = <<>> THEN <<>>
    ELSE InsertByPosition(
            sorted_by_position(SubSeq(shopify_images, 1, Len(shopify_images) - 1)),
            shopify_images[Len(shopify_images)])

media_ids_of(shopify_images) ==
    [i \in 1..Len(shopify_images) |->
        sorted_by_position(shopify_images)[i].shopify_media_id]

(***************************************************************************)
(* Requests and responses                                                  *)
(***************************************************************************)
NoPayload == [uid |-> 0, shopify_product_id |-> Gid("Product", 0),
              images_count |-> 0, status |-> "none"]

IdleReq == [pc |-> "idle", user_id |-> "u1", brand_id |-> 1, store_id |-> 1,
            idempotency_key |-> "", images |-> <<>>, shopify_product |-> 0,
            shopify_images |-> <<>>, uid |-> 0, outcome |-> "none",
            http |-> 0, payload |-> NoPayload, calls |-> <<>>, writes |-> 0]

NoResponse == [op |-> "none", user_id |-> "u1", brand_id |-> 1, uid |-> 0,
               soft_delete |-> TRUE, outcome |-> "none", http |-> 0,
               data |-> {}, calls |-> <<>>]

\* what the probe of an image_url finds: "ok" when requests.head answers
\* below 400; the key may be missing, the answer may be 400 or above, the
\* request may raise
Urls == {"ok", "missing", "status_404", "unreachable"}

ImageInputs == [url : Urls, position : Positions \cup {NoPos}]
RECURSIVE SeqsUpTo(_, _)
SeqsUpTo(S, n) ==
    IF n = 0 THEN {<<>>}
    ELSE SeqsUpTo(S, n - 1) \cup
         {Append(q, x) : q \in {r \in SeqsUpTo(S, n - 1) : Len(r) = n - 1}, x \in S}

InFlight == {p \in Procs : req[p].pc \notin {"idle", "done"}}

\* routes of shopify/products.py: exception class -> HTTP status of create
create_route(outcome) ==
    CASE outcome = "success" -> 201
      [] outcome = "IdempotencyConflict" -> 409
      [] outcome = "AuthorizationError" -> 403
      [] outcome = "ValidationError" -> 400
      [] outcome = "ShopifyAPIError" -> 502
      [] OTHER -> 500

\* how a remote call made through the executor ended: "ok", the error of the
\* platform's rejection, or "transport" when no attempt got through
final(res) ==
    IF res.status = "ok" THEN "ok"
    ELSE IF res.status = "fatal" THEN res.error ELSE "transport"

\* exception class raised out of _retry_shopify_call
raised_by(outcome) ==
    IF outcome = "user_errors" THEN "ShopifyAPIError" ELSE "Exception"

\* the ways a call with the given per-attempt outcomes can end when it is made
\* through _retry_shopify_call with its default arguments
RetryFinals(outcomes) ==
    {final(retry_shopify_call(outs, DefaultAttempts, DefaultBackoff)) :
        outs \in [1..DefaultAttempts -> outcomes]}

Finish(r, outcome, payload) ==
    [r EXCEPT !.pc = "done", !.outcome = outcome, !.payload = payload,
              !.http = create_route(outcome)]

(***************************************************************************)
(* POST /products -> ProductService.create_product_complete, lines 38-72:  *)
(* ownership, idempotency lookup, image validation, store lookup           *)
(***************************************************************************)
create_product(p, user_id, brand_id, store_id, idempotency_key, images, cap) ==
    /\ req[p].pc \in {"idle", "done"}
    /\ LET r == [IdleReq EXCEPT !.user_id = user_id, !.brand_id = brand_id,
                                !.store_id = store_id,
                                !.idempotency_key = idempotency_key,
                                !.images = images]
           existing == get_or_create_idempotency(idempotency_key, user_id, brand_id)
       IN  req' = [req EXCEPT ![p] =
                IF ~verify_brand_ownership(brand_id, user_id)
                THEN Finish(r, "AuthorizationError", NoPayload)
                ELSE IF existing # {}
                THEN Finish(r, "IdempotencyConflict", CHOOSE e \in existing : TRUE)
                ELSE IF validate_image_urls(images) # {}
                THEN Finish(r, "ValidationError", NoPayload)
                ELSE IF ~get_store_config(store_id, user_id)
                THEN Finish(r, "AuthorizationError", NoPayload)
                ELSE [r EXCEPT !.pc = "remote_creating"]]
    /\ req'[p].pc = "remote_creating" =>
            /\ Cardinality(DOMAIN shop_products) + Cardinality(InFlight) < cap
            /\ Len(product_info_change_stack) + Cardinality(InFlight) < MaxLog
    /\ UNCHANGED <<rt, catVars, dbVars, shop_products, uuid_count, last>>

\* the same step going on to the local rows whatever the platform answered
RemoteCreatingUnchecked(p) ==
    /\ req[p].pc = "remote_creating"
    /\ \E outs \in [1..DefaultAttempts -> RestOutcomes] :
        LET res == retry_shopify_call(outs, DefaultAttempts, DefaultBackoff)
            n == Cardinality(DOMAIN shop_products) + 1
            seen == [kind |-> "create", arg |-> <<>>, outcome |-> final(res)]
        IN  /\ shop_products' = IF res.status = "ok"
                                THEN Put(shop_products, n, [alive |-> TRUE])
                                ELSE shop_products
            /\ req' = [req EXCEPT ![p] =
                    [@ EXCEPT !.shopify_product = IF res.status = "ok" THEN n ELSE 0,
                              !.calls = Append(@, seen),
                              !.pc = "local_persisting"]]
    /\ UNCHANGED <<rt, catVars, dbVars, uuid_count, last>>

(***************************************************************************)
(* lines 74-77: create on the platform through the retry executor          *)
(***************************************************************************)
RemoteCreating(p) ==
    /\ req[p].pc = "remote_creating"
    /\ \E outs \in [1..DefaultAttempts -> RestOutcomes] :
        LET res == retry_shopify_call(outs, DefaultAttempts, DefaultBackoff)
            n == Cardinality(DOMAIN shop_products) + 1
            seen == [kind |-> "create", arg |-> <<>>, outcome |-> final(res)]
        IN  IF res.status = "ok"
            THEN /\ shop_products' = Put(shop_products, n, [alive |-> TRUE])
                 /\ req' = [req EXCEPT ![p] =
                        [@ EXCEPT !.shopify_product = n,
                                  !.calls = Append(@, seen),
                                  !.pc = IF req[p].images # <<>>
                                         THEN "media_uploading"
                                         ELSE "local_persisting"]]
            ELSE /\ UNCHANGED shop_products
                 /\ req' = [req EXCEPT ![p] =
                        Finish([@ EXCEPT !.calls = Append(@, seen)],
                               raised_by(final(res)), NoPayload)]
    /\ UNCHANGED <<rt, catVars, dbVars, uuid_count, last>>

(***************************************************************************)
(* lines 79-94: upload the next image through the retry executor           *)
(***************************************************************************)
MediaUploading(p) ==
    /\ req[p].pc = "media_uploading"
    /\ \E outs \in [1..DefaultAttempts -> GraphqlOutcomes] :
        LET res == retry_shopify_call(outs, DefaultAttempts, DefaultBackoff)
            k == Len(req[p].shopify_images) + 1
            img == req[p].images[k]
            seen == [kind |-> "media", arg |-> <<k>>, outcome |-> final(res)]
            uploaded == Append(req[p].shopify_images,
                          [shopify_media_id |-> k,
                           position |-> IF img.position = NoPos
                                        THEN Len(req[p].shopify_images)
                                        ELSE img.position])
        IN  IF res.status = "ok"
            THEN req' = [req EXCEPT ![p] =
                    [@ EXCEPT !.shopify_images = uploaded,
                              !.calls = Append(@, seen),
                              !.pc = IF k = Len(req[p].images)
                                     THEN "media_ordering"
                                     ELSE "media_uploading"]]
            ELSE req' = [req EXCEPT ![p] =
                    Finish([@ EXCEPT !.calls = Append(@, seen)],
                           raised_by(final(res)), NoPayload)]
    /\ UNCHANGED <<rt, catVars, dbVars, shop_products, uuid_count, last>>

(***************************************************************************)
(* lines 95-99: one reorder call with the media ids sorted by position     *)
(***************************************************************************)
MediaOrdering(p) ==
    /\ req[p].pc = "media_ordering"
    /\ \E outs \in [1..DefaultAttempts -> GraphqlOutcomes] :
        LET res == retry_shopify_call(outs, DefaultAttempts, DefaultBackoff)
            seen == [kind |-> "reorder",
                     arg |-> media_ids_of(req[p].shopify_images),
                     outcome |-> final(res)]
        IN  IF req[p].shopify_images = <<>>
            THEN req' = [req EXCEPT ![p].pc = "local_persisting"]
            ELSE IF res.status = "ok"
            THEN req' = [req EXCEPT ![p] =
                    [@ EXCEPT !.calls = Append(@, seen),
                              !.pc = "local_persisting"]]
            ELSE req' = [req EXCEPT ![p] =
                    Finish([@ EXCEPT !.calls = Append(@, seen)],
                           raised_by(final(res)), NoPayload)]
    /\ UNCHANGED <<rt, catVars, dbVars, shop_products, uuid_count, last>>

(***************************************************************************)
(* lines 101-117: uid = uuid4(); Write.create_product inserts uid_record   *)
(* and fashion in one transaction and swallows its own failure             *)
(***************************************************************************)
CreateTitles == {"A"}

Write_create_product(p, dbok) ==
    /\ req[p].pc = "local_persisting"
    /\ uuid_count' = uuid_count + 1
    /\ LET uid == uuid_count + 1
       IN  IF dbok
           THEN /\ uid_record' = Put(uid_record, uid, req[p].brand_id)
                /\ \E t \in CreateTitles :
                    fashion' = Put(fashion, uid,
                        [brand_id |-> req[p].brand_id, title |-> t, vendor |-> "V",
                         status |-> "ACTIVE"])
                /\ req' = [req EXCEPT ![p] =
                        [@ EXCEPT !.uid = uid, !.writes = @ + 1,
                                  !.pc = "local_rows"]]
           ELSE /\ UNCHANGED <<uid_record, fashion>>
                /\ req' = [req EXCEPT ![p] =
                        [@ EXCEPT !.uid = uid, !.pc = "local_rows"]]
    /\ UNCHANGED <<rt, catVars, brand_access, stores, low_resol_images,
                   shopify_product_mapping, product_info_change_stack,
                   catalogue_idempotency, shop_products, last>>

(***************************************************************************)
(* lines 119-133: image rows and the mapping row, one commit; both tables  *)
(* reference uid_record(uid)                                               *)
(***************************************************************************)
image_rows(uid, shopify_images) ==
    [i \in 1..Len(shopify_images) |->
        [uid |-> uid, position |-> shopify_images[i].position]]

LocalRows(p, dbok) ==
    /\ req[p].pc = "local_rows"
    /\ IF dbok /\ req[p].uid \in DOMAIN uid_record
       THEN /\ low_resol_images' = low_resol_images \o
                    image_rows(req[p].uid, req[p].shopify_images)
            /\ shopify_product_mapping' = shopify_product_mapping \cup
                    {[uid |-> req[p].uid, brand_id |-> req[p].brand_id,
                      shopify_product_id |-> Gid("Product", req[p].shopify_product),
                      store_id |-> req[p].store_id,
                      last_sync_status |-> "SUCCESS"]}
            /\ req' = [req EXCEPT ![p] =
                    [@ EXCEPT !.writes = @ + 1, !.pc = "audit_logging"]]
       ELSE /\ UNCHANGED <<low_resol_images, shopify_product_mapping>>
            /\ req' = [req EXCEPT ![p] = Finish(@, "Exception", NoPayload)]
    /\ UNCHANGED <<rt, catVars, brand_access, stores, uid_record, fashion,
                   product_info_change_stack, catalogue_idempotency,
                   shop_products, uuid_count, last>>

(***************************************************************************)
(* INSERT INTO product_info_change_stack (uid, brand_id, user_id, action,  *)
(* ...): the statement of create, update and delete                        *)
(***************************************************************************)
\* a statement that keeps one row per uid, the latest
replace_change_stack(table, uid, brand_id, user_id, action) ==
    LET others == {i \in 1..Len(table) : table[i].uid # uid}
        RECURSIVE kept(_)
        kept(i) == IF i = 0 THEN <<>>
                   ELSE IF i \in others THEN Append(kept(i - 1), table[i])
                   ELSE kept(i - 1)
    IN  Append(kept(Len(table)),
               [uid |-> uid, brand_id |-> brand_id, user_id |-> user_id,
                action |-> action])

insert_change_stack(table, uid, brand_id, user_id, action) ==
    Append(table, [uid |-> uid, brand_id |-> brand_id, user_id |-> user_id,
                   action |-> action])

(***************************************************************************)
(* lines 135-143: the CREATE row of product_info_change_stack              *)
(***************************************************************************)
AuditLogging(p, dbok) ==
    /\ req[p].pc = "audit_logging"
    /\ IF dbok
       THEN /\ product_info_change_stack' =
                    insert_change_stack(product_info_change_stack, req[p].uid,
                                        req[p].brand_id, req[p].user_id, "CREATE")
            /\ req' = [req EXCEPT ![p] =
                    [@ EXCEPT !.writes = @ + 1, !.pc = "storing"]]
       ELSE /\ UNCHANGED product_info_change_stack
            /\ req' = [req EXCEPT ![p] = Finish(@, "Exception", NoPayload)]
    /\ UNCHANGED <<rt, catVars, brand_access, stores, uid_record, fashion,
                   low_resol_images, shopify_product_mapping,
                   catalogue_idempotency, shop_products, uuid_count, last>>

(***************************************************************************)
(* ProductService._store_idempotency_response: INSERT under the unique key *)
(* (idempotency_key, user_id, brand_id); every failure is swallowed        *)
(***************************************************************************)
\* a store that replaces the response already stored under the triple
store_idempotency_response_replacing(table, idempotency_key, user_id, brand_id, response_payload, dbok) ==
    IF idempotency_key = "" THEN table
    ELSE IF ~dbok THEN table
    ELSE Put(table, <<idempotency_key, user_id, brand_id>>, response_payload)

store_idempotency_response(table, idempotency_key, user_id, brand_id, response_payload, dbok) ==
    IF idempotency_key = "" THEN table
    ELSE IF <<idempotency_key, user_id, brand_id>> \in DOMAIN table THEN table
    ELSE IF ~dbok THEN table
    ELSE Put(table, <<idempotency_key, user_id, brand_id>>, response_payload)

(***************************************************************************)
(* lines 145-153: build the result, store it under the key, return it      *)
(***************************************************************************)
StoreAndReturn(p, dbok) ==
    /\ req[p].pc = "storing"
    /\ LET result == [uid |-> req[p].uid,
                      shopify_product_id |-> Gid("Product", req[p].shopify_product),
                      images_count |-> Len(req[p].shopify_images),
                      status |-> "SUCCESS"]
           stored == store_idempotency_response(catalogue_idempotency,
                        req[p].idempotency_key, req[p].user_id,
                        req[p].brand_id, result, dbok)
       IN  /\ catalogue_idempotency' = stored
           /\ req' = [req EXCEPT ![p] =
                    Finish([@ EXCEPT !.writes =
                                IF stored # catalogue_idempotency
                                THEN @ + 1 ELSE @],
                           "success", result)]
    /\ UNCHANGED <<rt, catVars, brand_access, stores, uid_record, fashion,
                   low_resol_images, shopify_product_mapping,
                   product_info_change_stack, shop_products, uuid_count, last>>

(***************************************************************************)
(* GET /products/<uid> -> ProductService.get_product_by_uid                *)
(***************************************************************************)
get_product_by_uid(user_id, uid, brand_id) ==
    LET found == product_rows(uid, brand_id)
        r == [NoResponse EXCEPT !.op = "get", !.user_id = user_id,
                                !.brand_id = brand_id, !.uid = uid]
    IN  /\ last' = IF ~verify_brand_ownership(brand_id, user_id)
                   THEN [r EXCEPT !.outcome = "AuthorizationError", !.http = 403]
                   ELSE IF found = {}
                   THEN [r EXCEPT !.outcome = "not_found", !.http = 404]
                   ELSE [r EXCEPT !.outcome = "success", !.http = 200,
                                  !.data = found]
        /\ UNCHANGED <<rt, catVars, dbVars, shop_products, uuid_count, req>>

(***************************************************************************)
(* GET /products -> ProductService.list_products                           *)
(***************************************************************************)
list_products(user_id, brand_id) ==
    LET found == {u \in DOMAIN fashion :
                    u \in DOMAIN uid_record /\ uid_record[u] = brand_id}
        r == [NoResponse EXCEPT !.op = "list", !.user_id = user_id,
                                !.brand_id = brand_id]
    IN  /\ last' = IF ~verify_brand_ownership(brand_id, user_id)
                   THEN [r EXCEPT !.outcome = "AuthorizationError", !.http = 403]
                   ELSE [r EXCEPT !.outcome = "success", !.http = 200,
                                  !.data = found]
        /\ UNCHANGED <<rt, catVars, dbVars, shop_products, uuid_count, req>>

(***************************************************************************)
(* What the platform can answer to a call on product n: it cannot accept   *)
(* an update or a delete of a product it no longer has                     *)
(***************************************************************************)
remote_answers(n, outcomes) ==
    IF n \in DOMAIN shop_products /\ shop_products[n].alive
    THEN outcomes ELSE outcomes \ {"ok"}

\* the same UPDATE built without the status column
update_fashion_without_status(uid, brand_id, payload) ==
    IF uid \in DOMAIN fashion /\ fashion[uid].brand_id = brand_id
    THEN [fashion EXCEPT ![uid] =
            [@ EXCEPT !.vendor = IF payload.vendor # "absent"
                                THEN payload.vendor ELSE @]]
    ELSE fashion

\* UPDATE fashion SET ... WHERE uid = uid AND brand_id = brand_id
update_fashion(uid, brand_id, payload) ==
    IF uid \in DOMAIN fashion /\ fashion[uid].brand_id = brand_id
    THEN [fashion EXCEPT ![uid] =
            [@ EXCEPT !.vendor = IF payload.vendor # "absent"
                                THEN payload.vendor ELSE @,
                      !.status = IF payload.status # "absent"
                                 THEN payload.status ELSE @]]
    ELSE fashion

\* vendor stands for the synced columns that may be NULL (description,
\* vendor, product_type, tags), status for the columns that are not synced.
\* "absent": the payload has no such key; "null": the key is there with the
\* value None
UpdatePayloads == [vendor : {"B", "null", "absent"},
                   status : {"ACTIVE", "ARCHIVED", "absent"}]

\* status code of PATCH/DELETE /products/<uid> for a returned result dict
result_route(outcome) == IF outcome = "success" THEN 200 ELSE 400

Respond(r, outcome, calls) ==
    [r EXCEPT !.outcome = outcome, !.http = result_route(outcome), !.calls = calls]

(***************************************************************************)
(* PATCH /products/<uid> -> ProductService.update_product.  Every          *)
(* exception raised inside the method, AuthorizationError included, is     *)
(* caught by its own except clause and returned as an error dict.          *)
(***************************************************************************)
update_product(user_id, uid, brand_id, payload, dbok) ==
    LET rows == mapping_rows(uid, brand_id)
        row == CHOOSE m \in rows : TRUE
        n == row.shopify_product_id.n
        r == [NoResponse EXCEPT !.op = "update", !.user_id = user_id,
                                !.brand_id = brand_id, !.uid = uid]
        \* lines 262-267: field in payload and payload[field] is not None
        product_input == payload.vendor \notin {"absent", "null"}
        updates == payload.vendor # "absent" \/ payload.status # "absent"
        \* line 269: the client is called directly, one invocation
        call(out) == [kind |-> "update", arg |-> <<n, payload.vendor>>,
                      outcome |-> out, tries |-> 1]
        local(calls) ==
            IF updates /\ ~dbok
            THEN /\ last' = Respond(r, "error", calls)
                 /\ UNCHANGED <<fashion, product_info_change_stack>>
            ELSE /\ fashion' = update_fashion(uid, brand_id, payload)
                 /\ product_info_change_stack' =
                        IF updates
                        THEN insert_change_stack(product_info_change_stack,
                                uid, brand_id, user_id, "UPDATE")
                        ELSE product_info_change_stack
                 /\ last' = Respond(r, "success", calls)
    IN  /\ IF \/ ~verify_brand_ownership(brand_id, user_id)
              \/ rows = {}
              \/ ~get_store_config(row.store_id, user_id)
           THEN /\ last' = Respond(r, "error", <<>>)
                /\ UNCHANGED <<fashion, product_info_change_stack>>
           ELSE IF ~product_input THEN local(<<>>)
           ELSE \E out \in remote_answers(n, GraphqlOutcomes) :
                    IF out = "ok" THEN local(<<call(out)>>)
                    ELSE /\ last' = Respond(r, "error", <<call(out)>>)
                         /\ UNCHANGED <<fashion, product_info_change_stack>>
        /\ Len(product_info_change_stack') <= MaxLog
        /\ UNCHANGED <<rt, catVars, brand_access, stores, uid_record, low_resol_images,
                       shopify_product_mapping, catalogue_idempotency,
                       shop_products, uuid_count, req>>

(***************************************************************************)
(* DELETE /products/<uid> -> ProductService.delete_product                 *)
(***************************************************************************)
delete_product(user_id, uid, brand_id, soft_delete, dbok) ==
    LET rows == mapping_rows(uid, brand_id)
        row == CHOOSE m \in rows : TRUE
        n == row.shopify_product_id.n
        r == [NoResponse EXCEPT !.op = "delete", !.user_id = user_id,
                                !.brand_id = brand_id, !.uid = uid,
                                !.soft_delete = soft_delete]
        \* line 315: the client is called directly, one invocation
        call(out) == [kind |-> "delete", arg |-> <<n>>, outcome |-> out,
                      tries |-> 1]
    IN  /\ IF \/ ~verify_brand_ownership(brand_id, user_id)
              \/ rows = {}
              \/ ~get_store_config(row.store_id, user_id)
           THEN /\ last' = Respond(r, "error", <<>>)
                /\ UNCHANGED <<fashion, product_info_change_stack, shop_products>>
           ELSE \E out \in remote_answers(n, RestOutcomes) :
                IF out # "ok"
                THEN /\ last' = Respond(r, "error", <<call(out)>>)
                     /\ UNCHANGED <<fashion, product_info_change_stack, shop_products>>
                ELSE /\ shop_products' = [shop_products EXCEPT ![n].alive = FALSE]
                     /\ IF ~dbok
                        THEN /\ last' = Respond(r, "error", <<call(out)>>)
                             /\ UNCHANGED <<fashion, product_info_change_stack>>
                        ELSE /\ fashion' =
                                IF soft_delete
                                THEN update_fashion(uid, brand_id,
                                        [vendor |-> "absent", status |-> "ARCHIVED"])
                                ELSE IF uid \in DOMAIN fashion
                                     THEN Drop(fashion, uid) ELSE fashion
                             /\ product_info_change_stack' =
                                insert_change_stack(product_info_change_stack,
                                    uid, brand_id, user_id, "DELETE")
                             /\ last' = Respond(r, "success", <<call(out)>>)
        /\ Len(product_info_change_stack') <= MaxLog
        /\ UNCHANGED <<rt, catVars, brand_access, stores, uid_record, low_resol_images,
                       shopify_product_mapping, catalogue_idempotency,
                       uuid_count, req>>

(***************************************************************************)
(* Store registry: Write.add_store, Write.update_store, Write.delete_store *)
(***************************************************************************)
MaxStores == 4        \* rows of the stores table

StoreUsers == Users \cup {"u3"}     \* "u3" has no store yet

StoreUpdates == {[is_primary |-> TRUE], [is_primary |-> FALSE], [store_name |-> "n"]}

\* UNIQUE KEY unique_user_primary (user_id, is_primary)
unique_user_primary(table) ==
    \A s, t \in DOMAIN table :
        (table[s].user_id = table[t].user_id /\ table[s].is_primary = table[t].is_primary)
            => s = t

\* UPDATE stores SET is_primary = FALSE WHERE user_id = %s AND is_primary = TRUE
\*   [AND store_id != %s]
unset_primary(table, user_id, except) ==
    [s \in DOMAIN table |->
        IF table[s].user_id = user_id /\ table[s].is_primary /\ s # except
        THEN [table[s] EXCEPT !.is_primary = FALSE]
        ELSE table[s]]

storeRest == <<rt, brand_access, uid_record, fashion, low_resol_images,
               shopify_product_mapping, product_info_change_stack,
               catalogue_idempotency, shop_products, uuid_count, req, last,
               catVars>>

\* Write.add_store: the first store of a user is made primary; a duplicate
\* key raised by any statement rolls the transaction back
add_store(user_id, is_primary) ==
    LET store_count == Cardinality({s \in DOMAIN stores : stores[s].user_id = user_id})
        primary == is_primary \/ store_count = 0
        unset == IF primary THEN unset_primary(stores, user_id, 0) ELSE stores
        store_id == Cardinality(DOMAIN stores) + 1
        inserted == Put(unset, store_id,
                        [user_id |-> user_id, is_primary |-> primary,
                         is_active |-> TRUE])
    IN  /\ Cardinality(DOMAIN stores) < MaxStores
        /\ stores' = IF unique_user_primary(unset) /\ unique_user_primary(inserted)
                     THEN inserted ELSE stores
        /\ UNCHANGED storeRest

\* Write.update_store: ownership by user_id only; is_primary is written as given
update_store(store_id, user_id, kwargs) ==
    LET owned == store_id \in DOMAIN stores /\ stores[store_id].user_id = user_id
        given == "is_primary" \in DOMAIN kwargs
        unset == IF given /\ kwargs.is_primary
                 THEN unset_primary(stores, user_id, store_id) ELSE stores
        updated == IF given
                   THEN [unset EXCEPT ![store_id].is_primary = kwargs.is_primary]
                   ELSE unset
    IN  /\ stores' = IF owned /\ unique_user_primary(unset) /\ unique_user_primary(updated)
                     THEN updated ELSE stores
        /\ UNCHANGED storeRest

\* Write.delete_store: UPDATE stores SET is_active = FALSE
\*   WHERE store_id = %s AND user_id = %s
delete_store(store_id, user_id) ==
    /\ stores' = [s \in DOMAIN stores |->
                    IF s = store_id /\ stores[s].user_id = user_id
                    THEN [stores[s] EXCEPT !.is_active = FALSE]
                    ELSE stores[s]]
    /\ UNCHANGED storeRest

(***************************************************************************)
(* Catalogue side: ids as they are written, the webhook signature          *)
(***************************************************************************)
NoId == [form |-> "none", type |-> "", n |-> 0]

\* str(x): the decimal string of an int, the string itself for a string
py_str(id) == IF id.form = "num" THEN [id EXCEPT !.form = "str"] ELSE id

\* hmac.new(secret, body, sha256).digest(): a MAC names its key and its message
hmac_sha256(secret, body) == [key |-> secret, msg |-> body]
b64encode(digest) == [b64 |-> digest]

\* request.headers.get("X-Shopify-Hmac-SHA256", "") of a request without the
\* header: a value no digest encodes to
NoHeader(body) == [b64 |-> [key |-> "none", msg |-> body]]

\* the signature comparison without the guard on an unset secret
verify_any_secret(secret, body, hmac_header) ==
    b64encode(hmac_sha256(secret, body)) = hmac_header

\* catalogue._verify_shopify_webhook
verify_shopify_webhook(secret, body, hmac_header) ==
    IF secret = "" THEN FALSE
    ELSE b64encode(hmac_sha256(secret, body)) = hmac_header

Secrets == {"s1", "s2"}     \* "s1" is the shop's secret, "s2" somebody else's

\* signature headers a request with this body may carry: none, or a MAC
\* under some key of the body or of another body
Headers(body, other) ==
    {NoHeader(body)} \cup
    {b64encode(hmac_sha256(k, m)) : k \in Secrets \cup {""}, m \in {body, other}}

NoReply == [op |-> "none", authentic |-> FALSE, http |-> 0,
            outcome |-> "none", calls |-> 0, data |-> 0, wrote |-> {},
            failed |-> "none", tries |-> 0, id |-> NoId]

\* the request carries the MAC of its own body under the configured secret
Authentic(secret, body, hmac_header) ==
    /\ secret # ""
    /\ hmac_header.b64.key = secret
    /\ hmac_header.b64.msg = body

\* a webhook reply remembers whether the request was authentic and the
\* remote id its payload carried
WebhookReply(op, body, hmac_header) ==
    [NoReply EXCEPT !.op = op,
                    !.authentic = Authentic(webhook_secret, body, hmac_header),
                    !.id = IF op = "webhook_product" THEN body.id
                           ELSE body.inventory_item_id]

\* CatalogueService.verify_store_ownership: owner and is_active
verify_store_ownership(store_id, user_id) ==
    \E s \in DOMAIN stores :
        s = store_id /\ stores[s].user_id = user_id /\ stores[s].is_active

\* CatalogueService._log_audit: one INSERT, its failure swallowed
log_audit(table, row, logok) == IF logok THEN Append(table, row) ELSE table

\* media dicts collected by the upload loop for the first n images
uploaded_images(images, n) ==
    [k \in 1..n |->
        [shopify_media_id |-> k,
         position |-> IF images[k].position = NoPos THEN k - 1
                      ELSE images[k].position]]

\* the inventory item the platform gives variant i of its product n
item_of(n, i) == MaxVariants * (n - 1) + i

(***************************************************************************)
(* CatalogueService.create_catalogue_complete: ownership, validation,      *)
(* remote create, uploads and reorder through the retry executor, then one *)
(* transaction for catalogue, mapping, variants and images, then the audit *)
(* row                                                                     *)
(***************************************************************************)
create_catalogue_complete(user_id, store_id, title, nvariants, images, dbok, logok) ==
    LET r == [NoReply EXCEPT !.op = "create_catalogue"]
        n == Cardinality(DOMAIN shop_products) + 1
        catalogue_id == uuid_count + 1
        call(kind, arg, out) == [kind |-> kind, arg |-> arg, outcome |-> out]
        uploads(k) == [i \in 1..k |-> call("media", <<i>>, "ok")]
        raise(exc, calls, created) ==
            /\ reply' = [r EXCEPT !.outcome = exc, !.http = create_route(exc),
                                  !.calls = Len(calls)]
            /\ shop_products' = IF created
                                THEN Put(shop_products, n, [alive |-> TRUE])
                                ELSE shop_products
            /\ UNCHANGED <<catTables, uuid_count>>
        persist(calls, shopify_images) ==
            IF ~dbok THEN raise("Exception", calls, TRUE)
            ELSE
            /\ shop_products' = Put(shop_products, n, [alive |-> TRUE])
            /\ uuid_count' = uuid_count + 1 + nvariants + Len(shopify_images)
            /\ catalogue' = Put(catalogue, catalogue_id,
                    [store_id |-> store_id, user_id |-> user_id,
                     title |-> title, status |-> "ACTIVE"])
            /\ catalogue_shopify_mapping' = catalogue_shopify_mapping \cup
                    {[catalogue_id |-> catalogue_id,
                      shopify_product_id |-> Gid("Product", n),
                      store_id |-> store_id, last_sync_status |-> "SUCCESS"]}
            /\ catalogue_variants' =
                    [v \in DOMAIN catalogue_variants \cup
                           {catalogue_id + i : i \in 1..nvariants} |->
                        IF v \in DOMAIN catalogue_variants
                        THEN catalogue_variants[v]
                        ELSE [catalogue_id |-> catalogue_id,
                              inventory_item_id |->
                                Gid("InventoryItem", item_of(n, v - catalogue_id))]]
            /\ catalogue_images' = catalogue_images \o
                    [i \in 1..Len(shopify_images) |->
                        [catalogue_id |-> catalogue_id,
                         shopify_media_id |-> shopify_images[i].shopify_media_id,
                         position |-> shopify_images[i].position]]
            /\ catalogue_audit_log' = log_audit(catalogue_audit_log,
                    [catalogue_id |-> catalogue_id, store_id |-> store_id,
                     user_id |-> user_id, action |-> "CREATE", source |-> "api"],
                    logok)
            /\ reply' = [r EXCEPT !.outcome = "success", !.http = 201,
                                  !.calls = Len(calls), !.data = catalogue_id]
            /\ UNCHANGED catalogue_inventory
    IN  /\ IF ~verify_store_ownership(store_id, user_id)
              \/ ~get_store_config(store_id, user_id)
           THEN raise("AuthorizationError", <<>>, FALSE)
           ELSE IF validate_image_urls(images) # {}
           THEN raise("ValidationError", <<>>, FALSE)
           ELSE \E created \in RetryFinals(RestOutcomes) :
                IF created # "ok"
                THEN raise(raised_by(created), <<call("create", <<>>, created)>>, FALSE)
                ELSE IF images = <<>>
                THEN persist(<<call("create", <<>>, "ok")>>, <<>>)
                ELSE \E k \in 0..Len(images), ended \in RetryFinals(GraphqlOutcomes) :
                     LET done == <<call("create", <<>>, "ok")>> \o uploads(k)
                         media == uploaded_images(images, k)
                     IN  IF k < Len(images)
                         THEN /\ ended # "ok"
                              /\ raise(raised_by(ended),
                                       Append(done, call("media", <<k + 1>>, ended)),
                                       TRUE)
                         ELSE LET reordered ==
                                    Append(done, call("reorder", media_ids_of(media), ended))
                              IN  IF ended # "ok"
                                  THEN raise(raised_by(ended), reordered, TRUE)
                                  ELSE persist(reordered, media)
        /\ shop_products' # shop_products =>
                Cardinality(DOMAIN shop_products) < MaxRemote
        /\ Len(catalogue_audit_log') <= MaxAudit
        /\ UNCHANGED <<rt, dbVars, req, last, webhook_secret>>

(***************************************************************************)
(* POST /catalogue: one call of create_catalogue_complete                  *)
(***************************************************************************)
create_catalogue(user_id, store_id, title, nvariants, images, dbok, logok) ==
    /\ create_catalogue_complete(user_id, store_id, title, nvariants, images,
                                 dbok, logok)
    /\ UNCHANGED bulk

(***************************************************************************)
(* POST /catalogue/bulk: the items are created one after the other; the    *)
(* first exception leaves the loop and becomes the whole response          *)
(***************************************************************************)
MaxItems == 2         \* items of a bulk request

\* images arguments tried on the catalogue side
CatalogueImages == SeqsUpTo([url : {"ok", "bad"}, position : {NoPos}], 1)

BulkItems == [store_id : StoreIds, nvariants : {1}, images : CatalogueImages]

NoBulk == [pc |-> "idle", user_id |-> "u1", items |-> <<>>, results |-> <<>>,
           http |-> 0, data |-> <<>>]

\* lines 376-381: the request is read; an empty items array is answered 400
bulk_create_catalogue(user_id, items) ==
    /\ bulk.pc \in {"idle", "done"}
    /\ bulk' = IF items = <<>>
               THEN [NoBulk EXCEPT !.pc = "done", !.user_id = user_id, !.http = 400]
               ELSE [NoBulk EXCEPT !.pc = "running", !.user_id = user_id,
                                   !.items = items]
    /\ UNCHANGED <<rt, dbVars, shop_products, uuid_count, req, last,
                   webhook_secret, catTables, reply>>

\* lines 382-411: one turn of the loop, and the response when the loop ends
BulkItem ==
    /\ bulk.pc = "running"
    /\ LET item == bulk.items[Len(bulk.results) + 1]
       IN  create_catalogue_complete(bulk.user_id, item.store_id, "A",
                                     item.nvariants, item.images, TRUE, TRUE)
    /\ bulk' = IF reply'.outcome # "success"
               THEN [bulk EXCEPT !.pc = "done", !.http = reply'.http]
               ELSE IF Len(bulk.results) + 1 < Len(bulk.items)
               THEN [bulk EXCEPT !.results = Append(@, reply'.data)]
               ELSE [bulk EXCEPT !.pc = "done", !.http = 201,
                                 !.results = Append(@, reply'.data),
                                 !.data = Append(bulk.results, reply'.data)]

(***************************************************************************)
(* CatalogueService.sync_inventory_for_catalogue                           *)
(***************************************************************************)
\* the variants of a catalogue in the order the SELECT returns them
RECURSIVE in_order(_)
in_order(ids) ==
    IF ids = {} THEN <<>>
    ELSE LET least == CHOOSE x \in ids : \A y \in ids : x <= y
         IN  <<least>> \o in_order(ids \ {least})

variants_of(catalogue_id) ==
    in_order({v \in DOMAIN catalogue_variants :
                catalogue_variants[v].catalogue_id = catalogue_id})

\* the same statement as a plain INSERT
insert_inventory(table, variant_id, location_id, quantity) ==
    Append(table, [variant_id |-> variant_id, location_id |-> location_id,
                   available_quantity |-> quantity, sync_status |-> "IN_SYNC"])

\* the unique key of catalogue_inventory
inventory_key(row) == <<row.variant_id, row.location_id>>

\* INSERT INTO catalogue_inventory ... ON DUPLICATE KEY UPDATE
\*   available_quantity = VALUES(available_quantity), sync_status = 'IN_SYNC'
upsert_inventory(table, variant_id, location_id, quantity) ==
    IF \E i \in 1..Len(table) : inventory_key(table[i]) = <<variant_id, location_id>>
    THEN [i \in 1..Len(table) |->
            IF inventory_key(table[i]) = <<variant_id, location_id>>
            THEN [table[i] EXCEPT !.available_quantity = quantity,
                                  !.sync_status = "IN_SYNC"]
            ELSE table[i]]
    ELSE Append(table, [variant_id |-> variant_id, location_id |-> location_id,
                        available_quantity |-> quantity, sync_status |-> "IN_SYNC"])

quantity_for(variant_id, quantities) ==
    IF variant_id \in DOMAIN quantities THEN quantities[variant_id] ELSE 0

RECURSIVE upsert_all(_, _, _, _)
upsert_all(table, variants, location_id, quantities) ==
    IF variants = <<>> THEN table
    ELSE upsert_all(upsert_inventory(table, Head(variants), location_id,
                                     quantity_for(Head(variants), quantities)),
                    Tail(variants), location_id, quantities)

\* the remote calls of the loop: activate, then set the quantity, per variant
sync_calls(variants, location_id, quantities) ==
    [j \in 1..2 * Len(variants) |->
        LET v == variants[(j + 1) \div 2]
        IN  [kind |-> IF j % 2 = 1 THEN "activate" ELSE "set_quantity",
             arg |-> <<catalogue_variants[v].inventory_item_id, location_id,
                       IF j % 2 = 1 THEN 0 ELSE quantity_for(v, quantities)>>,
             outcome |-> "ok"]]

\* what get_locations returns: only the first location is read
LocationLists == SeqsUpTo(1..MaxLocations, 1)

sync_inventory_for_catalogue(catalogue_id, user_id, quantities, dbok, logok) ==
    LET rows == {c \in DOMAIN catalogue :
                    c = catalogue_id /\ catalogue[c].user_id = user_id}
        store_id == catalogue[catalogue_id].store_id
        variants == variants_of(catalogue_id)
        r == [NoReply EXCEPT !.op = "sync_inventory", !.data = catalogue_id]
        \* the error the remote call raised, if one did, and the number of
        \* times that call was invoked: the client is called directly
        raised(calls) ==
            IF calls # <<>> /\ calls[Len(calls)].outcome # "ok"
            THEN calls[Len(calls)].outcome ELSE "none"
        fail(calls) ==
            /\ reply' = [r EXCEPT !.outcome = "error", !.http = 400,
                                  !.calls = Len(calls),
                                  !.failed = raised(calls),
                                  !.tries = IF raised(calls) = "none" THEN 0 ELSE 1]
            /\ UNCHANGED <<catalogue_inventory, catalogue_audit_log>>
        located(out) == [kind |-> "get_locations", arg |-> <<>>, outcome |-> out]
    IN  /\ IF rows = {} \/ ~get_store_config(store_id, user_id)
           THEN fail(<<>>)
           ELSE \E locations \in LocationLists, got \in RestOutcomes,
                   bad \in RestOutcomes \ {"ok"} :
                IF got # "ok" THEN locations = <<>> /\ fail(<<located(got)>>)
                ELSE IF locations = <<>> THEN fail(<<located("ok")>>)
                ELSE LET location_id == Gid("Location", locations[1])
                         calls == sync_calls(variants, location_id, quantities)
                     IN  \E k \in 0..Len(calls) :
                            IF k < Len(calls)
                            THEN fail(<<located("ok")>> \o SubSeq(calls, 1, k) \o
                                      <<[calls[k + 1] EXCEPT !.outcome = bad]>>)
                            ELSE IF ~dbok THEN fail(<<located("ok")>> \o calls)
                            ELSE /\ catalogue_inventory' =
                                        upsert_all(catalogue_inventory, variants,
                                                   location_id, quantities)
                                 /\ catalogue_audit_log' = log_audit(catalogue_audit_log,
                                        [catalogue_id |-> catalogue_id,
                                         store_id |-> store_id, user_id |-> user_id,
                                         action |-> "INVENTORY", source |-> "api"],
                                        logok)
                                 /\ reply' = [r EXCEPT !.outcome = "success",
                                        !.http = 200, !.calls = 1 + Len(calls),
                                        !.wrote =
                                            {<<variants[i], location_id,
                                               quantity_for(variants[i], quantities)>> :
                                                i \in 1..Len(variants)}]
        /\ Len(catalogue_audit_log') <= MaxAudit
        /\ UNCHANGED <<rt, dbVars, shop_products, uuid_count, req, last, bulk,
                       webhook_secret, catalogue, catalogue_shopify_mapping,
                       catalogue_variants, catalogue_images>>

(***************************************************************************)
(* POST /webhooks/shopify/product-update ->                                *)
(* CatalogueService.update_catalogue_from_webhook                          *)
(***************************************************************************)
ProductBodies ==
    [id : {NoId} \cup {Num(n) : n \in 1..MaxRemote + 1}
                 \cup {Gid("Product", n) : n \in 1..MaxRemote + 1},
     title : {"B"}]

RetitledBody(body) == [body EXCEPT !.title = IF @ = "A" THEN "B" ELSE "A"]

\* a reconciler that records the event of a product it has no mapping for
webhook_product_adopting(body, hmac_header, dbok, logok) ==
    /\ verify_shopify_webhook(webhook_secret, body, hmac_header)
    /\ body.id # NoId
    /\ reply' = [WebhookReply("webhook_product", body, hmac_header)
                    EXCEPT !.http = 200, !.outcome = "success"]
    /\ catalogue_audit_log' = log_audit(catalogue_audit_log,
            [catalogue_id |-> 0, store_id |-> 0, user_id |-> "none",
             action |-> "SYNC", source |-> "shopify_webhook"], logok)
    /\ Len(catalogue_audit_log') <= MaxAudit
    /\ UNCHANGED <<rt, dbVars, shop_products, uuid_count, req, last, bulk,
                   webhook_secret, catalogue, catalogue_shopify_mapping,
                   catalogue_variants, catalogue_images, catalogue_inventory>>

webhook_product_update(body, hmac_header, dbok, logok) ==
    LET r == WebhookReply("webhook_product", body, hmac_header)
        shopify_product_id == py_str(body.id)
        rows == {m \in catalogue_shopify_mapping :
                    /\ m.shopify_product_id = shopify_product_id
                    /\ m.catalogue_id \in DOMAIN catalogue}
        row == CHOOSE m \in rows : TRUE
        answer(http, outcome) ==
            /\ reply' = [r EXCEPT !.http = http, !.outcome = outcome]
            /\ UNCHANGED <<catalogue, catalogue_audit_log>>
    IN  /\ IF ~verify_shopify_webhook(webhook_secret, body, hmac_header)
           THEN answer(401, "invalid signature")
           ELSE IF body.id = NoId
           THEN answer(400, "missing product id")
           ELSE IF rows = {}
           THEN answer(400, "Product mapping not found")
           ELSE IF ~dbok
           THEN answer(400, "error")
           ELSE /\ catalogue' = [catalogue EXCEPT ![row.catalogue_id].title = body.title]
                /\ catalogue_audit_log' = log_audit(catalogue_audit_log,
                        [catalogue_id |-> row.catalogue_id,
                         store_id |-> catalogue[row.catalogue_id].store_id,
                         user_id |-> catalogue[row.catalogue_id].user_id,
                         action |-> "SYNC", source |-> "shopify_webhook"],
                        logok)
                /\ reply' = [r EXCEPT !.http = 200, !.outcome = "success",
                                      !.data = row.catalogue_id]
        /\ Len(catalogue_audit_log') <= MaxAudit
        /\ UNCHANGED <<rt, dbVars, shop_products, uuid_count, req, last, bulk,
                       webhook_secret, catalogue_shopify_mapping,
                       catalogue_variants, catalogue_images, catalogue_inventory>>

(***************************************************************************)
(* POST /webhooks/shopify/inventory-update ->                              *)
(* CatalogueService.update_inventory_from_webhook                          *)
(***************************************************************************)
NoQty == -1                 \* the payload has no "available" value

\* an id in the form the payload writes its ids in
written(form, type, n) == IF form = "num" THEN Num(n) ELSE Gid(type, n)

InventoryBodies ==
    {[inventory_item_id |-> written(f, "InventoryItem", i),
      location_id |-> written(f, "Location", l), available |-> q] :
        f \in {"num", "gid"}, i \in 1..MaxVariants * MaxRemote,
        l \in 1..MaxLocations, q \in {NoQty} \cup 1..MaxQty}
    \cup {[inventory_item_id |-> NoId, location_id |-> Num(1), available |-> NoQty]}

RecountedBody(body) ==
    [body EXCEPT !.available = IF @ = MaxQty THEN NoQty ELSE MaxQty]

webhook_inventory_update(body, hmac_header, dbok, logok) ==
    LET r == WebhookReply("webhook_inventory", body, hmac_header)
        rows == {v \in DOMAIN catalogue_variants :
                    catalogue_variants[v].inventory_item_id = body.inventory_item_id}
        variant_id == CHOOSE v \in rows : \A w \in rows : v <= w
        answer(http, outcome) ==
            /\ reply' = [r EXCEPT !.http = http, !.outcome = outcome]
            /\ UNCHANGED <<catalogue_inventory, catalogue_audit_log>>
    IN  /\ IF ~verify_shopify_webhook(webhook_secret, body, hmac_header)
           THEN answer(401, "invalid signature")
           ELSE IF body.inventory_item_id = NoId \/ body.location_id = NoId
           THEN answer(400, "missing inventory_item_id or location_id")
           ELSE IF rows = {}
           THEN answer(400, "variant not found")
           ELSE IF ~dbok
           THEN answer(400, "error")
           ELSE /\ catalogue_inventory' =
                    upsert_inventory(catalogue_inventory, variant_id,
                                     py_str(body.location_id),
                                     IF body.available = NoQty THEN 0
                                     ELSE body.available)
                /\ catalogue_audit_log' = log_audit(catalogue_audit_log,
                        [catalogue_id |-> catalogue_variants[variant_id].catalogue_id,
                         store_id |-> 0, user_id |-> "none",
                         action |-> "INVENTORY", source |-> "shopify_webhook"],
                        logok)
                /\ reply' = [r EXCEPT !.http = 200, !.outcome = "success",
                                      !.data = variant_id,
                                      !.wrote = {<<variant_id, py_str(body.location_id),
                                                   IF body.available = NoQty THEN 0
                                                   ELSE body.available>>}]
        /\ Len(catalogue_audit_log') <= MaxAudit
        /\ UNCHANGED <<rt, dbVars, shop_products, uuid_count, req, last, bulk,
                       webhook_secret, catalogue, catalogue_shopify_mapping,
                       catalogue_variants, catalogue_images>>

(***************************************************************************)
(* Initial state: the tenants exist, nothing has been created               *)
(***************************************************************************)
InitEngine ==
    /\ brand_access = {<<1, "u1">>, <<2, "u1">>, <<2, "u2">>}
    /\ stores = [s \in StoreIds |->
                    [user_id |-> IF s = 1 THEN "u1" ELSE "u2",
                     is_primary |-> TRUE, is_active |-> TRUE]]
    /\ uid_record = EmptyFn
    /\ fashion = EmptyFn
    /\ low_resol_images = <<>>
    /\ shopify_product_mapping = {}
    /\ product_info_change_stack = <<>>
    /\ catalogue_idempotency = EmptyFn
    /\ shop_products = EmptyFn
    /\ uuid_count = 0
    /\ req = [p \in Procs |-> IdleReq]
    /\ last = NoResponse
    /\ catalogue = EmptyFn
    /\ catalogue_shopify_mapping = {}
    /\ catalogue_variants = EmptyFn
    /\ catalogue_images = <<>>
    /\ catalogue_inventory = <<>>
    /\ catalogue_audit_log = <<>>
    /\ reply = NoReply
    /\ bulk = NoBulk

(***************************************************************************)
(* Retry executor on its own: Init draws the behaviour of the remote call  *)
(* and the arguments, RetryCall runs the executor on them.                 *)
(***************************************************************************)
RetryIdle == [pc |-> "idle", outs |-> <<>>, attempts |-> 0, backoff |-> 0,
              res |-> [status |-> "none", calls |-> 0, sleeps |-> <<>>,
                       error |-> "none", last_error |-> "none"]]

InitRetry ==
    \E outs \in [1..MaxAttempts -> Outcomes], n \in 1..MaxAttempts,
       d \in 1..MaxBackoff :
        /\ rt = [RetryIdle EXCEPT !.pc = "ready", !.outs = outs,
                                  !.attempts = n, !.backoff = d]
        /\ webhook_secret = "s1"
        /\ InitEngine

RetryCall ==
    /\ rt.pc = "ready"
    /\ rt' = [rt EXCEPT !.pc = "returned",
                        !.res = retry_shopify_call(rt.outs, rt.attempts, rt.backoff)]
    /\ UNCHANGED engineVars

NextRetry == RetryCall

SpecRetry == InitRetry /\ [][NextRetry]_vars

(***************************************************************************)
(* The engine serving one request at a time over a reliable database       *)
(***************************************************************************)
Init == rt = RetryIdle /\ webhook_secret = "s1" /\ InitEngine

PersistSteps(p, dbok) ==
    \/ Write_create_product(p, dbok)
    \/ LocalRows(p, dbok)
    \/ AuditLogging(p, dbok)
    \/ StoreAndReturn(p, dbok)

Handlers(dbok) ==
    \/ \E u \in Users, uid \in Uids, b \in Brands : get_product_by_uid(u, uid, b)
    \/ \E u \in Users, b \in Brands : list_products(u, b)
    \/ \E u \in Users, uid \in Uids, b \in Brands, pl \in UpdatePayloads :
            update_product(u, uid, b, pl, dbok)
    \/ \E u \in Users, uid \in Uids, b \in Brands, soft \in BOOLEAN :
            delete_product(u, uid, b, soft, dbok)

Next ==
    \/ \E u \in Users, b \in Brands, s \in StoreIds, k \in Keys :
            create_product(1, u, b, s, k, <<>>, MaxRemote)
    \/ RemoteCreating(1)
    \/ PersistSteps(1, TRUE)
    \/ InFlight = {} /\ Handlers(TRUE)

Spec == Init /\ [][Next]_vars

(***************************************************************************)
(* Two workers serving POST /products concurrently                         *)
(***************************************************************************)
NextConc ==
    \/ \E p \in Procs, b \in Brands, k \in Keys :
            create_product(p, "u1", b, 1, k, <<>>, MaxConcurrent)
    \/ \E p \in Procs : RemoteCreating(p)
    \/ \E p \in Procs : PersistSteps(p, TRUE)

SpecConc == Init /\ [][NextConc]_vars

(***************************************************************************)
(* POST /products with images                                              *)
(***************************************************************************)
NextMedia ==
    \/ \E k \in Keys, images \in SeqsUpTo(ImageInputs, MaxImages) :
            create_product(1, "u1", 1, 1, k, images, MaxRemote)
    \/ RemoteCreating(1)
    \/ MediaUploading(1)
    \/ MediaOrdering(1)
    \/ PersistSteps(1, TRUE)

SpecMedia == Init /\ [][NextMedia]_vars

(***************************************************************************)
(* The catalogue side: create, inventory sync and the two webhooks, in a   *)
(* process started with or without SHOPIFY_WEBHOOK_SECRET                  *)
(***************************************************************************)
InitCatalogue ==
    /\ rt = RetryIdle
    /\ webhook_secret \in {"", "s1"}
    /\ InitEngine

QuantityMaps ==
    UNION {[D -> 1..MaxQty] : D \in SUBSET DOMAIN catalogue_variants}

NextCatalogue ==
    \/ \E u \in Users, s \in StoreIds, nv \in 1..MaxVariants,
          images \in CatalogueImages :
            create_catalogue(u, s, "A", nv, images, TRUE, TRUE)
    \/ \E c \in DOMAIN catalogue \cup {0}, u \in Users, q \in QuantityMaps :
            sync_inventory_for_catalogue(c, u, q, TRUE, TRUE)
    \/ \E body \in ProductBodies :
            \E h \in Headers(body, RetitledBody(body)) :
                webhook_product_update(body, h, TRUE, TRUE)
    \/ \E body \in InventoryBodies :
            \E h \in Headers(body, RecountedBody(body)) :
                webhook_inventory_update(body, h, TRUE, TRUE)

SpecCatalogue == InitCatalogue /\ [][NextCatalogue]_vars

(***************************************************************************)
(* The store registry on its own                                           *)
(***************************************************************************)
NextStores ==
    \/ \E u \in StoreUsers, primary \in BOOLEAN : add_store(u, primary)
    \/ \E s \in 1..MaxStores, u \in StoreUsers, kw \in StoreUpdates :
            update_store(s, u, kw)
    \/ \E s \in 1..MaxStores, u \in StoreUsers : delete_store(s, u)

SpecStores == Init /\ [][NextStores]_vars

(***************************************************************************)
(* POST /catalogue/bulk on its own                                         *)
(***************************************************************************)
NextBulk ==
    \/ \E u \in Users, items \in SeqsUpTo(BulkItems, MaxItems) :
            bulk_create_catalogue(u, items)
    \/ BulkItem

SpecBulk == Init /\ [][NextBulk]_vars

(***************************************************************************)
(* The same engine over a database whose writes may fail                   *)
(***************************************************************************)
NextFault ==
    \/ \E b \in Brands, s \in StoreIds, k \in Keys :
            create_product(1, "u1", b, s, k, <<>>, MaxRemote)
    \/ RemoteCreating(1)
    \/ \E dbok \in BOOLEAN : PersistSteps(1, dbok)
    \/ InFlight = {} /\ \E dbok \in BOOLEAN : Handlers(dbok)

SpecFault == Init /\ [][NextFault]_vars

(***************************************************************************)
(* Creates in sequence by every user, under every brand and key, over a    *)
(* platform that accepts more than one product                             *)
(***************************************************************************)
NextIdem ==
    \/ \E u \in Users, b \in Brands, s \in StoreIds, k \in Keys :
            create_product(1, u, b, s, k, <<>>, MaxConcurrent)
    \/ RemoteCreating(1)
    \/ \E dbok \in BOOLEAN : PersistSteps(1, dbok)

SpecIdem == Init /\ [][NextIdem]_vars

(***************************************************************************)
(* A create attempt that may fail at any step, uploads and database writes *)
(* included, repeated by a second attempt once the first has ended         *)
(***************************************************************************)
RepeatImages == {<<>>, <<[url |-> "ok", position |-> NoPos]>>}

NextRepeat ==
    \/ /\ req[2].pc = "idle"
       /\ \E b \in Brands, k \in Keys, images \in RepeatImages :
            create_product(1, "u1", b, 1, k, images, MaxConcurrent)
    \/ /\ req[1].pc = "done"
       /\ \E b \in Brands, k \in Keys, images \in RepeatImages :
            create_product(2, "u1", b, 1, k, images, MaxConcurrent)
    \/ \E p \in Procs : RemoteCreating(p)
    \/ \E p \in Procs : MediaUploading(p)
    \/ \E p \in Procs : MediaOrdering(p)
    \/ \E p \in Procs, dbok \in BOOLEAN : PersistSteps(p, dbok)

SpecRepeat == Init /\ [][NextRepeat]_vars

(***************************************************************************)
(* The product engine of user u1 while stores are being soft-deleted       *)
(* between requests                                                        *)
(***************************************************************************)
NextInactive ==
    \/ InFlight = {} /\ \E s \in StoreIds, u \in Users : delete_store(s, u)
    \/ \E s \in StoreIds : create_product(1, "u1", 1, s, "", <<>>, MaxRemote)
    \/ RemoteCreating(1)
    \/ PersistSteps(1, TRUE)
    \/ InFlight = {} /\ \E uid \in Uids, pl \in UpdatePayloads :
            update_product("u1", uid, 1, pl, TRUE)
    \/ InFlight = {} /\ \E uid \in Uids, soft \in BOOLEAN :
            delete_product("u1", uid, 1, soft, TRUE)

SpecInactive == Init /\ [][NextInactive]_vars

(***************************************************************************)
(* Vocabulary of the properties                                            *)
(***************************************************************************)
\* a step of get/list/update/delete: the create request is not touched and
\* last' is the response of the step
HandlerStep == req' = req

CallsOfKind(calls, kind) == {i \in 1..Len(calls) : calls[i].kind = kind}

\* the remote products the local mapping ties to product u
RemoteOf(u) == {m.shopify_product_id.n : m \in {x \in shopify_product_mapping : x.uid = u}}

\* calls that address a remote product of u
Touching(calls, u) ==
    {i \in 1..Len(calls) : calls[i].arg # <<>> /\ calls[i].arg[1] \in RemoteOf(u)}

\* every local row of product u
RowsOf(u) ==
    LET mine(row) == row.uid = u
    IN  <<IF u \in DOMAIN uid_record THEN {uid_record[u]} ELSE {},
          IF u \in DOMAIN fashion THEN {fashion[u]} ELSE {},
          {m \in shopify_product_mapping : m.uid = u},
          SelectSeq(low_resol_images, mine),
          SelectSeq(product_info_change_stack, mine)>>

\* products of brands the user has no brand_access row for
Foreign(user_id) ==
    {u \in DOMAIN uid_record : ~verify_brand_ownership(uid_record[u], user_id)}

(***************************************************************************)
(* C1 -- sequential idempotency of create_product_complete                 *)
(***************************************************************************)
\* the request in req[1] returned a result and the step starts the same
\* request (key, user, brand) again
Replay ==
    /\ req[1].pc = "done" /\ req[1].outcome = "success"
    /\ req[1].idempotency_key # ""
    /\ req'[1] # req[1]
    /\ req'[1].idempotency_key = req[1].idempotency_key
    /\ req'[1].user_id = req[1].user_id
    /\ req'[1].brand_id = req[1].brand_id

ReplaySideEffectFree ==
    /\ req'[1].pc = "done"
    /\ req'[1].payload = req[1].payload
    /\ req'[1].payload.uid \in DOMAIN uid_record
    /\ req'[1].calls = <<>> /\ req'[1].writes = 0
    /\ UNCHANGED <<dbVars, shop_products, uuid_count>>
    /\ Cardinality(CallsOfKind(req[1].calls, "create")) +
       Cardinality(CallsOfKind(req'[1].calls, "create")) = 1

Stored ==
    <<req[1].idempotency_key, req[1].user_id, req[1].brand_id>>
        \in DOMAIN catalogue_idempotency

C2_OwnershipIsolation ==
    [][HandlerStep =>
        \A u \in Foreign(last'.user_id) :
            /\ u \notin last'.data
            /\ Touching(last'.calls, u) = {}
            /\ RowsOf(u)' = RowsOf(u)]_vars

\* a user addressed an existing product of a brand they have no access to,
\* under a brand they do have access to
C2_Witness ==
    /\ last.op \in {"get", "update", "delete"}
    /\ last.uid \in DOMAIN fashion
    /\ last.uid \in Foreign(last.user_id)
    /\ verify_brand_ownership(last.brand_id, last.user_id)
    /\ last.outcome # "success"

(***************************************************************************)
(* C3 -- a mapping row implies its product row                             *)
(***************************************************************************)
\* C3: in every reachable state, every shopify_product_mapping row names a
\* uid that has a fashion row; after a delete too, hard delete included.
C3_MappingImpliesProduct ==
    \A m \in shopify_product_mapping : m.uid \in DOMAIN fashion

(***************************************************************************)
(* C6 -- outcome of a soft delete                                          *)
(***************************************************************************)
\* the ownership guards of delete_product pass for product u
Owned(u, user_id, brand_id) ==
    /\ verify_brand_ownership(brand_id, user_id)
    /\ mapping_rows(u, brand_id) # {}
    /\ \A m \in mapping_rows(u, brand_id) : get_store_config(m.store_id, user_id)

\* a step of delete_product with soft_delete = TRUE on an existing, owned product
SoftDeleteOf(u) ==
    /\ HandlerStep
    /\ last'.op = "delete" /\ last'.soft_delete /\ last'.uid = u
    /\ u \in DOMAIN fashion
    /\ Owned(u, last'.user_id, last'.brand_id)

RemoteDeleteOk == \E i \in CallsOfKind(last'.calls, "delete") : last'.calls[i].outcome = "ok"

OneRemoteDelete(u) ==
    /\ Cardinality(CallsOfKind(last'.calls, "delete")) = 1
    /\ Len(last'.calls) = 1
    /\ Touching(last'.calls, u) = {1}

C10_AuthorizationFailureIs403 ==
    /\ (last.op # "none" /\ ~verify_brand_ownership(last.brand_id, last.user_id))
            => last.http = 403
    /\ (req[1].pc = "done" /\ ~verify_brand_ownership(req[1].brand_id, req[1].user_id))
            => req[1].http = 403

(***************************************************************************)
(* C4 -- what the retry executor retries                                   *)
(***************************************************************************)
\* C4: with attempts = 3, a call that fails twice with a transient error and
\* then succeeds is invoked three times, its third result is returned, and
\* exactly two sleeps are taken; a call whose first invocation fails with a
\* validation-class error is invoked once, no sleep is taken, and that error
\* propagates unchanged.
C4_RetryBoundary ==
    (rt.pc = "returned" /\ rt.attempts = DefaultAttempts) =>
        /\ (rt.outs[1] = "transport" /\ rt.outs[2] = "transport" /\ rt.outs[3] = "ok")
                => (rt.res.status = "ok" /\ rt.res.calls = 3 /\ Len(rt.res.sleeps) = 2)
        /\ rt.outs[1] \in {"http_error", "user_errors"}
                => (/\ rt.res.status = "fatal" /\ rt.res.error = rt.outs[1]
                    /\ rt.res.calls = 1 /\ rt.res.sleeps = <<>>)

\* the executor returned from transient, transient, success
C4_Witness ==
    /\ rt.pc = "returned" /\ rt.attempts = DefaultAttempts
    /\ rt.outs[1] = "transport" /\ rt.outs[2] = "transport" /\ rt.outs[3] = "ok"
    /\ rt.res.status = "ok" /\ Len(rt.res.sleeps) = 2

(***************************************************************************)
(* C9 -- idempotency of creates in flight together                         *)
(***************************************************************************)
SameTriple(p, q) ==
    /\ req[p].idempotency_key # ""
    /\ req[p].idempotency_key = req[q].idempotency_key
    /\ req[p].user_id = req[q].user_id
    /\ req[p].brand_id = req[q].brand_id

\* C9: of two create requests with the same non-empty key, user and brand
\* that are served concurrently, at most one gets past the idempotency
\* lookup at a time, at most one creates a product on the platform and at
\* most one persists a local product.
C9_OneCreatePerKeyInFlight ==
    \A p, q \in Procs : (p # q /\ SameTriple(p, q)) =>
        /\ ~(p \in InFlight /\ q \in InFlight)
        /\ ~(req[p].shopify_product # 0 /\ req[q].shopify_product # 0)
        /\ ~(req[p].uid \in DOMAIN fashion /\ req[q].uid \in DOMAIN fashion
                /\ req[p].uid # req[q].uid)

(***************************************************************************)
(* C7 -- media ordering                                                    *)
(***************************************************************************)
UploadedCalls(calls) ==
    {i \in CallsOfKind(calls, "media") : calls[i].outcome = "ok"}

\* ids in ascending position, ids of equal position in upload order
StablySorted(ids, shopify_images) ==
    LET pos(id) == (CHOOSE img \in {shopify_images[i] : i \in 1..Len(shopify_images)} :
                        img.shopify_media_id = id).position
    IN  /\ Len(ids) = Len(shopify_images)
        /\ {ids[i] : i \in 1..Len(ids)} =
           {shopify_images[i].shopify_media_id : i \in 1..Len(shopify_images)}
        /\ \A i \in 1..Len(ids) - 1 :
              \/ pos(ids[i]) < pos(ids[i + 1])
              \/ pos(ids[i]) = pos(ids[i + 1]) /\ ids[i] < ids[i + 1]

\* C7: a create issues exactly one reorder call if and only if at least one
\* image was uploaded; the call carries the uploaded media ids in ascending
\* position, ties in upload order, and comes after every upload.
C7_OneReorderIffUploaded ==
    req[1].pc = "done" =>
        LET calls == req[1].calls
            re == CallsOfKind(calls, "reorder")
        IN  /\ Cardinality(re) = 1 <=> UploadedCalls(calls) # {}
            /\ \A r \in re :
                /\ StablySorted(calls[r].arg, req[1].shopify_images)
                /\ \A i \in CallsOfKind(calls, "media") : i < r

(***************************************************************************)
(* C5 -- webhook signature rejection                                       *)
(***************************************************************************)
WebhookOps == {"webhook_product", "webhook_inventory"}

\* C5: on both webhook endpoints, a request whose signature header is not
\* the HMAC-SHA256 of its body under the configured secret, and any request
\* while no secret is configured, is answered 401 and changes no table: the
\* catalogue rows, the inventory records and the audit log stay as they are.
C5_UnsignedWebhookRejected ==
    [][(reply'.op \in WebhookOps /\ (~reply'.authentic \/ webhook_secret = "")) =>
            /\ reply'.http = 401
            /\ UNCHANGED <<catTables, dbVars, shop_products, uuid_count>>]_vars

\* a webhook with a mismatching signature was turned away while there was a
\* catalogue with variants it could have changed
C5_Witness ==
    /\ reply.op \in WebhookOps /\ reply.http = 401 /\ ~reply.authentic
    /\ webhook_secret # ""
    /\ DOMAIN catalogue_variants # {}

(***************************************************************************)
(* C8 -- one inventory record per variant and location                     *)
(***************************************************************************)
InventoryRowsAt(variant_id, location_id) ==
    {i \in 1..Len(catalogue_inventory) :
        /\ catalogue_inventory[i].variant_id = variant_id
        /\ catalogue_inventory[i].location_id = location_id}

Rejected(calls) ==
    {i \in 1..Len(calls) : calls[i].outcome \in {"http_error", "user_errors"}}

\* C11: whenever the platform rejects a call made during create, update or
\* delete, by a non-2xx response or by userErrors, the error raised is a
\* ShopifyAPIError and the endpoint answers 502.
C11_RemoteRejectionIs502 ==
    /\ (req[1].pc = "done" /\ Rejected(req[1].calls) # {})
            => (req[1].outcome = "ShopifyAPIError" /\ req[1].http = 502)
    /\ (last.op \in {"update", "delete"} /\ Rejected(last.calls) # {})
            => last.http = 502

(***************************************************************************)
(* C12 -- partial success of bulk create                                   *)
(***************************************************************************)
\* C12: when some items of a bulk create succeed and a later item fails, the
\* response carries one result per item, so that the items already created
\* are reported together with the failure.
C12_BulkReportsEveryItem ==
    (bulk.pc = "done" /\ bulk.results # <<>> /\ Len(bulk.results) < Len(bulk.items))
        => /\ Len(bulk.data) = Len(bulk.items)
           /\ \A i \in 1..Len(bulk.results) : bulk.data[i] = bulk.results[i]

(***************************************************************************)
(* C13 -- one primary store per user                                       *)
(***************************************************************************)
ActiveStores(user_id) ==
    {s \in DOMAIN stores : stores[s].user_id = user_id /\ stores[s].is_active}

\* C13: after any sequence of add_store, update_store and delete_store, a
\* user who has at least one active store has exactly one active store with
\* is_primary = TRUE.
C13_OnePrimaryActiveStore ==
    \A u \in StoreUsers :
        ActiveStores(u) # {} =>
            Cardinality({s \in ActiveStores(u) : stores[s].is_primary}) = 1

(***************************************************************************)
(* C14 -- remote creation before local persistence                         *)
(***************************************************************************)
\* a step of the create request of worker 1
CreateStep == req'[1] # req[1]

\* the create-product call of request r has returned successfully
RemoteCreated(r) ==
    \E i \in CallsOfKind(r.calls, "create") : r.calls[i].outcome = "ok"

\* C14: a create writes no local row (uid_record, fashion, low_resol_images,
\* shopify_product_mapping, product_info_change_stack, catalogue_idempotency)
\* before its remote create call has returned successfully; when the remote
\* create fails, fatally or after the retries are exhausted, the request
\* ends with an error and the local tables unchanged.
C14_RemoteBeforeLocal ==
    [][CreateStep =>
        /\ dbVars' # dbVars =>
                (req[1].pc \notin {"idle", "done", "remote_creating"}
                    /\ RemoteCreated(req[1]))
        /\ (req[1].pc = "remote_creating" /\ ~RemoteCreated(req'[1])) =>
                /\ req'[1].pc = "done" /\ req'[1].outcome # "success"
                /\ req'[1].writes = 0
                /\ UNCHANGED dbVars]_vars

\* a create with images was abandoned after its remote create had used up
\* the retries, with nothing written locally
C14_Witness ==
    /\ req[1].pc = "done" /\ req[1].outcome = "Exception"
    /\ req[1].images # <<>>
    /\ Len(req[1].calls) = 1 /\ req[1].calls[1].outcome = "transport"
    /\ req[1].writes = 0
    /\ fashion = EmptyFn /\ shopify_product_mapping = {}

(***************************************************************************)
(* C15 -- validation fails fast                                            *)
(***************************************************************************)
\* the step that starts a create request with an image that has no URL or
\* whose probe fails
StartWithInvalidImage ==
    /\ req[1].pc \in {"idle", "done"}
    /\ CreateStep
    /\ \E i \in 1..Len(req'[1].images) : req'[1].images[i].url # "ok"

\* the request has ended without a remote call and without a local write
EndedUntouched ==
    /\ req'[1].pc = "done"
    /\ req'[1].calls = <<>> /\ req'[1].writes = 0
    /\ UNCHANGED <<dbVars, shop_products, uuid_count>>

\* C15 as stated: a create with an invalid image aborts with a
\* ValidationError before any remote call and any local write.
C15_InvalidImageIsValidationError ==
    [][StartWithInvalidImage =>
        (EndedUntouched /\ req'[1].outcome = "ValidationError"
                        /\ req'[1].http = 400)]_vars

\* C15 amended: a create with an invalid image ends before any remote call
\* and any local write; it ends with a ValidationError (400) when the user
\* has access to the brand and no response is stored under the request's
\* idempotency key; the ownership check and the idempotency lookup come
\* first and answer with AuthorizationError or IdempotencyConflict.
C15_InvalidImageFailsFast ==
    [][StartWithInvalidImage =>
        /\ EndedUntouched
        /\ req'[1].outcome =
            IF ~verify_brand_ownership(req'[1].brand_id, req'[1].user_id)
            THEN "AuthorizationError"
            ELSE IF get_or_create_idempotency(req'[1].idempotency_key,
                        req'[1].user_id, req'[1].brand_id) # {}
            THEN "IdempotencyConflict"
            ELSE "ValidationError"
        /\ req'[1].outcome = "ValidationError" => req'[1].http = 400]_vars

\* a request with one good and one unreachable image was turned away
C15_Witness ==
    /\ req[1].pc = "done" /\ req[1].outcome = "ValidationError"
    /\ Len(req[1].images) = 2
    /\ req[1].images[1].url = "ok" /\ req[1].images[2].url = "unreachable"
    /\ req[1].calls = <<>> /\ req[1].writes = 0
    /\ shop_products = EmptyFn /\ fashion = EmptyFn

(***************************************************************************)
(* C16 -- atomic local persistence                                         *)
(***************************************************************************)
\* the rows that the local persisting of request r commits
ProductRowOf(r) == r.uid \in DOMAIN fashion
MappingRowOf(r) == \E m \in shopify_product_mapping : m.uid = r.uid

\* C16: once a create has ended, no committed Product row of the request
\* stays without its RemoteMapping row: the local persisting is all or nothing.
C16_LocalPersistingAllOrNothing ==
    (req[1].pc = "done" /\ ProductRowOf(req[1])) => MappingRowOf(req[1])

(***************************************************************************)
(* C17 -- best-effort image attachment                                     *)
(***************************************************************************)
\* the image uploads of request r that the platform accepted, and those
\* that failed after their retries
Uploaded(r) == {i \in CallsOfKind(r.calls, "media") : r.calls[i].outcome = "ok"}
FailedUploads(r) == {i \in CallsOfKind(r.calls, "media") : r.calls[i].outcome # "ok"}

\* C17: a create whose remote product was created and one of whose image
\* uploads failed after its retries still ends in success, the product
\* persisted locally, images_count being the number of successful uploads.
C17_FailedUploadStillSucceeds ==
    (req[1].pc = "done" /\ RemoteCreated(req[1]) /\ FailedUploads(req[1]) # {})
        => /\ req[1].outcome = "success"
           /\ ProductRowOf(req[1]) /\ MappingRowOf(req[1])
           /\ req[1].payload.images_count = Cardinality(Uploaded(req[1]))

(***************************************************************************)
(* C18 -- best-effort audit                                                *)
(***************************************************************************)
\* the CREATE row of the change log of request r
ChangeLogEntryOf(r) == {i \in 1..Len(product_info_change_stack) : product_info_change_stack[i].uid = r.uid /\ product_info_change_stack[i].action = "CREATE"}

\* C18: a create whose Product and RemoteMapping rows were committed and
\* whose ChangeLogEntry could not be appended still returns its success
\* payload and still stores it under the idempotency key, when one was given.
C18_AuditFailureStillSucceeds ==
    (/\ req[1].pc = "done"
     /\ ProductRowOf(req[1]) /\ MappingRowOf(req[1])
     /\ ChangeLogEntryOf(req[1]) = {})
        => /\ req[1].outcome = "success"
           /\ req[1].payload.uid = req[1].uid
           /\ req[1].payload.status = "SUCCESS"

(***************************************************************************)
(* C19 -- retry exhaustion and linear backoff                              *)
(***************************************************************************)
\* every one of the attempts of the call fails with a retryable error
AllRetryable == \A k \in 1..rt.attempts : rt.outs[k] = "transport"

\* C19: when every attempt fails with a retryable error, the executor called
\* with attempts = n and backoff_seconds = d invokes the call exactly n
\* times, sleeps d*k after the k-th failure, and ends by raising a terminal
\* error that carries the last failure; it never invokes the call more than
\* n times.
C19_ExhaustionAndLinearBackoff ==
    rt.pc = "returned" =>
        /\ rt.res.calls <= rt.attempts
        /\ \A k \in 1..Len(rt.res.sleeps) : rt.res.sleeps[k] = rt.backoff * k
        /\ AllRetryable =>
            /\ rt.res.status = "exhausted"
            /\ rt.res.calls = rt.attempts
            /\ Len(rt.res.sleeps) = rt.attempts
            /\ rt.res.error = "Exception"
            /\ rt.res.last_error = rt.outs[rt.attempts]

\* three attempts with a backoff of two seconds ran out: sleeps 2, 4, 6
C19_Witness ==
    /\ rt.pc = "returned" /\ AllRetryable
    /\ rt.attempts = 3 /\ rt.backoff = 2
    /\ rt.res.status = "exhausted" /\ rt.res.sleeps = <<2, 4, 6>>

(***************************************************************************)
(* C20 -- transport errors are retried on every remote call                *)
(***************************************************************************)
\* the remote calls of the last update or delete that ended in a transport
\* error
TransportFailures(r) == {i \in 1..Len(r.calls) : r.calls[i].outcome = "transport"}

\* C20: a remote call of update_product, of delete_product or of the
\* inventory sync surfaces a transport error only after the attempt budget
\* was used: the call was invoked DefaultAttempts times.
C20_TransportRetriedEverywhere ==
    /\ last.op \in {"update", "delete"} =>
            \A i \in TransportFailures(last) : last.calls[i].tries = DefaultAttempts
    /\ (reply.op = "sync_inventory" /\ reply.failed = "transport") =>
            reply.tries = DefaultAttempts

(***************************************************************************)
(* C21 -- the idempotency lookup is exact and scoped to the tenant         *)
(***************************************************************************)
\* the (key, user, brand) triple of request r
TripleOf(r) == <<r.idempotency_key, r.user_id, r.brand_id>>

\* a create request of a user with access to the brand starts
StartOfCreate ==
    /\ req[1].pc \in {"idle", "done"}
    /\ CreateStep
    /\ verify_brand_ownership(req'[1].brand_id, req'[1].user_id)

\* C21: a create is answered from the idempotency store if and only if its
\* key is not empty and a response was stored under exactly its (key, user,
\* brand) triple, and then with that response; a create without a key
\* stores nothing; the same key under another brand or user executes fresh.
C21_LookupExactAndScoped ==
    [][/\ StartOfCreate =>
            /\ req'[1].outcome = "IdempotencyConflict" <=>
                    (/\ req'[1].idempotency_key # ""
                     /\ TripleOf(req'[1]) \in DOMAIN catalogue_idempotency)
            /\ req'[1].outcome = "IdempotencyConflict" =>
                    req'[1].payload = catalogue_idempotency[TripleOf(req'[1])]
       /\ catalogue_idempotency' # catalogue_idempotency =>
            /\ req[1].idempotency_key # ""
            /\ DOMAIN catalogue_idempotency' =
                    DOMAIN catalogue_idempotency \cup {TripleOf(req[1])}]_vars

\* the key k1 stored by u1 under brand 2 did not stop u2's create under
\* brand 2 with the same key, nor u1's under brand 1: a second product exists
C21_Witness ==
    /\ <<"k1", "u1", 2>> \in DOMAIN catalogue_idempotency
    /\ req[1].pc = "done" /\ req[1].outcome = "success"
    /\ req[1].idempotency_key = "k1"
    /\ TripleOf(req[1]) # <<"k1", "u1", 2>>
    /\ req[1].user_id = "u2"
    /\ Cardinality(DOMAIN shop_products) = 2

(***************************************************************************)
(* C22 -- the idempotency store is write-once and silent on duplicates     *)
(***************************************************************************)
\* worker p stores its response under a triple that already has a record
DuplicateStore(p) ==
    /\ req[p].pc = "storing" /\ req'[p].pc = "done"
    /\ req[p].idempotency_key # ""
    /\ TripleOf(req[p]) \in DOMAIN catalogue_idempotency

\* C22: every response stored under a (key, user, brand) triple stays as it
\* was stored; a store for a triple that already has a record changes
\* nothing and raises no error: the create still returns its own result.
C22_StoreWriteOnceAndSilent ==
    [][/\ \A t \in DOMAIN catalogue_idempotency :
            /\ t \in DOMAIN catalogue_idempotency'
            /\ catalogue_idempotency'[t] = catalogue_idempotency[t]
       /\ \A p \in Procs : DuplicateStore(p) =>
            /\ catalogue_idempotency' = catalogue_idempotency
            /\ req'[p].outcome = "success" /\ req'[p].http = 201
            /\ req'[p].payload.uid = req[p].uid]_vars

\* two workers created under the same triple: the response of the first to
\* store is the record, the second returned its own result
C22_Witness ==
    /\ req[1].pc = "done" /\ req[2].pc = "done"
    /\ req[1].outcome = "success" /\ req[2].outcome = "success"
    /\ TripleOf(req[1]) = <<"k1", "u1", 1>> /\ TripleOf(req[2]) = <<"k1", "u1", 1>>
    /\ catalogue_idempotency[<<"k1", "u1", 1>>] = req[1].payload
    /\ req[2].payload # req[1].payload

(***************************************************************************)
(* C23 -- webhook reconciliation reaches the products this system created  *)
(***************************************************************************)
\* the mapping rows of the remote product that a payload id names, whether
\* the payload writes the id as the platform's number or as a gid
MappingsNamedBy(id) ==
    {m \in catalogue_shopify_mapping :
        /\ id.form \in {"num", "gid"}
        /\ id.n = m.shopify_product_id.n
        /\ m.catalogue_id \in DOMAIN catalogue}

\* C23: a correctly signed product-updated webhook whose payload id names
\* the remote product of a catalogue created through the create flow is
\* matched to its mapping and patches the local row to the payload's values.
C23_WebhookReachesCreatedProduct ==
    (reply.op = "webhook_product" /\ reply.authentic /\ MappingsNamedBy(reply.id) # {})
        => /\ reply.http = 200 /\ reply.outcome = "success"
           /\ \A m \in MappingsNamedBy(reply.id) :
                /\ reply.data = m.catalogue_id
                /\ catalogue[m.catalogue_id].title = "B"

(***************************************************************************)
(* C24 -- unknown remote ids are never adopted                             *)
(***************************************************************************)
\* the variants of the inventory item that a payload id names
VariantsNamedBy(id) ==
    {v \in DOMAIN catalogue_variants :
        /\ id.form \in {"num", "gid"}
        /\ id.n = catalogue_variants[v].inventory_item_id.n}

\* the webhook answered by this step names a remote id nothing local maps to
UnknownRemoteId ==
    \/ reply'.op = "webhook_product" /\ MappingsNamedBy(reply'.id) = {}
    \/ reply'.op = "webhook_inventory" /\ VariantsNamedBy(reply'.id) = {}

\* C24: a product-updated webhook whose product id has no mapping and an
\* inventory-updated webhook whose inventory item matches no variant are
\* answered with an error and leave every local table as it was.
C24_UnknownIdsNotAdopted ==
    [][UnknownRemoteId =>
        /\ reply'.outcome # "success" /\ reply'.http \in {400, 401}
        /\ UNCHANGED <<catTables, dbVars>>]_vars

\* a signed product webhook for a product nobody created here was turned
\* away while another product is mapped
C24_Witness ==
    /\ reply.op = "webhook_product" /\ reply.authentic
    /\ reply.id = Gid("Product", 2)
    /\ reply.http = 400 /\ reply.outcome = "Product mapping not found"
    /\ catalogue_shopify_mapping # {} /\ MappingsNamedBy(reply.id) = {}

(***************************************************************************)
(* C25 -- audit entries of webhooks carry no acting user                   *)
(***************************************************************************)
\* the audit entries the webhook reconciler appended
WebhookEntries == {i \in 1..Len(catalogue_audit_log) : catalogue_audit_log[i].source = "shopify_webhook"}

\* C25: every audit entry appended for a product-updated or an
\* inventory-updated webhook is marked as coming from the webhook and has
\* no acting user.
C25_WebhookEntriesHaveNoUser ==
    \A i \in WebhookEntries : catalogue_audit_log[i].user_id = "none"

(***************************************************************************)
(* C26 -- the change log is append-only                                    *)
(***************************************************************************)
\* log after is log before with rows appended
Extends(after, before) ==
    /\ Len(after) >= Len(before)
    /\ \A i \in 1..Len(before) : after[i] = before[i]

\* C26: no operation of the engine changes or removes an entry of the
\* change log; every step leaves the entries it found and may append.
C26_ChangeLogAppendOnly ==
    [][/\ Extends(product_info_change_stack', product_info_change_stack)
       /\ Extends(catalogue_audit_log', catalogue_audit_log)]_vars

\* a product was created and then hard-deleted: its row is gone, both
\* entries of its history are there
C26_Witness ==
    /\ last.op = "delete" /\ last.outcome = "success" /\ ~last.soft_delete
    /\ last.uid \notin DOMAIN fashion
    /\ Len(product_info_change_stack) = 2
    /\ product_info_change_stack[1].action = "CREATE"
    /\ product_info_change_stack[2].action = "DELETE"
    /\ product_info_change_stack[1].uid = last.uid
    /\ product_info_change_stack[2].uid = last.uid

(***************************************************************************)
(* C27 -- at most one remote product per idempotency key, across failures  *)
(***************************************************************************)
\* C27: of two create attempts under the same non-empty (key, user, brand),
\* the second made after the first ended, whatever step the first failed
\* at, at most one has a product created on the platform.
C27_OneRemoteProductPerKey ==
    (SameTriple(1, 2) /\ req[1].idempotency_key # "" /\ req[1].pc = "done")
        => ~(RemoteCreated(req[1]) /\ RemoteCreated(req[2]))

(***************************************************************************)
(* C28 -- no live local product points at a deleted remote product         *)
(***************************************************************************)
\* delete_product succeeded for uid: the remote product of its mapping row
\* was deleted on the platform
DeletedRemotely(uid) ==
    \E m \in shopify_product_mapping :
        /\ m.uid = uid
        /\ m.shopify_product_id.n \in DOMAIN shop_products
        /\ ~shop_products[m.shopify_product_id.n].alive

\* a step of update_product
UpdateStep == last'.op = "update" /\ req' = req

\* C28: once delete_product has succeeded for a uid, no update_product of
\* that uid patches its local row; the status of the row never leaves
\* ARCHIVED.
C28_NoUpdateAfterDelete ==
    [][(UpdateStep /\ DeletedRemotely(last'.uid)) => fashion' = fashion]_vars

(***************************************************************************)
(* C29 -- local and remote agree after an update                           *)
(***************************************************************************)
\* the remote updates of response r that the platform applied
AppliedRemotely(r) == {i \in CallsOfKind(r.calls, "update") : r.calls[i].outcome = "ok"}

\* the update changed the vendor column of its row
VendorChangedLocally ==
    /\ last'.uid \in DOMAIN fashion /\ last'.uid \in DOMAIN fashion'
    /\ fashion'[last'.uid].vendor # fashion[last'.uid].vendor

\* C29: a successful update_product that changed a synced column of the
\* local row applied the same value to the remote product, and one that
\* updated the remote product wrote the same value to the local row.
C29_LocalAndRemoteAgree ==
    [][(UpdateStep /\ last'.outcome = "success") =>
        /\ VendorChangedLocally =>
                \E i \in AppliedRemotely(last') :
                    last'.calls[i].arg[2] = fashion'[last'.uid].vendor
        /\ \A i \in AppliedRemotely(last') :
                /\ last'.uid \in DOMAIN fashion'
                /\ fashion'[last'.uid].vendor = last'.calls[i].arg[2]]_vars

(***************************************************************************)
(* C30 -- soft-deleted stores are never used                               *)
(***************************************************************************)
\* the create request makes a remote call in this step
CreateCallsRemote == Len(req'[1].calls) > Len(req[1].calls)

\* update_product or delete_product ran in this step and made a remote call
HandlerCallsRemote ==
    /\ req' = req /\ stores' = stores
    /\ last'.op \in {"update", "delete"} /\ last'.calls # <<>>

\* the stores whose credentials the remote call of the handler uses
StoresOf(uid) == {m.store_id : m \in {x \in shopify_product_mapping : x.uid = uid}}

\* C30: no create, update or delete makes a remote call with the
\* credentials of a store that delete_store has set inactive.
C30_InactiveStoreNeverUsed ==
    [][/\ CreateCallsRemote => stores[req[1].store_id].is_active
       /\ HandlerCallsRemote =>
            \A s \in StoresOf(last'.uid) : stores[s].is_active]_vars

====
